---- MODULE Spec2Model ----
(***************************************************************************)
(* Model of e2p: main() decodes an equirectangular image, calls            *)
(* Equirectangular::get_perspective and writes the result with imwrite.    *)
(*                                                                         *)
(* Arithmetic is exact.  Angles given in degrees are multiples of 90, so   *)
(* sin and cos are in {-1,0,1} and the Rodrigues matrices are integer.     *)
(* Angles produced by atan2/asin are counted in units of pi/8 (PI = 8):    *)
(* an even count is the exact angle, an odd count stands for an angle      *)
(* strictly inside the 45-degree sector between its two even neighbours.   *)
(* Direction vectors are integer numerators over a common positive         *)
(* denominator; xyz_to_lonlat normalises, so the denominator drops out.    *)
(* Sample coordinates are stored multiplied by 2*PI (sixteenths of a       *)
(* pixel).                                                                 *)
(***************************************************************************)
EXTENDS Integers, Sequences, FiniteSets, TLC

VARIABLES pc, src, self_height, self_width,
          fov, theta, phi, height, width,
          k, k_inv, reshaped_xyz, r, rotated_xyz, lonlat, xy, persp,
          reached, written, exit_code, diag

vars == <<pc, src, self_height, self_width, fov, theta, phi, height, width,
          k, k_inv, reshaped_xyz, r, rotated_xyz, lonlat, xy, persp,
          reached, written, exit_code, diag>>

(* ------------------------------- bounds -------------------------------- *)
MaxSrc == 3
MaxOut == 2

(* pi, in angle units of pi/8 *)
PI == 8

SrcDims == 1..MaxSrc
OutDims == 0..MaxOut
Angles == {-360, -270, -180, -90, 0, 90, 180, 270, 360}
Fovs == {0, 90, 270}

(* ------------------------------ numerics ------------------------------- *)
Abs(n) == IF n < 0 THEN -n ELSE n
Sgn(n) == IF n < 0 THEN -1 ELSE IF n > 0 THEN 1 ELSE 0

Mod360(d) == d % 360

Sin(d) == CASE Mod360(d) = 0 -> 0
            [] Mod360(d) = 90 -> 1
            [] Mod360(d) = 180 -> 0
            [] Mod360(d) = 270 -> -1

Cos(d) == CASE Mod360(d) = 0 -> 1
            [] Mod360(d) = 90 -> 0
            [] Mod360(d) = 180 -> -1
            [] Mod360(d) = 270 -> 0

(* tan(0.5 * fov / 180 * pi) for the field-of-view values of Fovs *)
TanHalf(d) == CASE d = 0 -> 0
                [] d = 90 -> 1
                [] d = 270 -> -1

I3 == << <<1, 0, 0>>, <<0, 1, 0>>, <<0, 0, 1>> >>
Z3 == << <<0, 0, 0>>, <<0, 0, 0>>, <<0, 0, 0>> >>

MatMul(a, b) ==
  [i \in 1..3 |-> [j \in 1..3 |->
      a[i][1] * b[1][j] + a[i][2] * b[2][j] + a[i][3] * b[3][j]]]

MatVec(a, v) ==
  [i \in 1..3 |-> a[i][1] * v[1] + a[i][2] * v[2] + a[i][3] * v[3]]

Det(a) ==
    a[1][1] * (a[2][2] * a[3][3] - a[2][3] * a[3][2])
  - a[1][2] * (a[2][1] * a[3][3] - a[2][3] * a[3][1])
  + a[1][3] * (a[2][1] * a[3][2] - a[2][2] * a[3][1])

Adjugate(a) ==
  << << a[2][2] * a[3][3] - a[2][3] * a[3][2],
        a[1][3] * a[3][2] - a[1][2] * a[3][3],
        a[1][2] * a[2][3] - a[1][3] * a[2][2] >>,
     << a[2][3] * a[3][1] - a[2][1] * a[3][3],
        a[1][1] * a[3][3] - a[1][3] * a[3][1],
        a[1][3] * a[2][1] - a[1][1] * a[2][3] >>,
     << a[2][1] * a[3][2] - a[2][2] * a[3][1],
        a[1][2] * a[3][1] - a[1][1] * a[3][2],
        a[1][1] * a[2][2] - a[1][2] * a[2][1] >> >>

Scale(a, c) == [i \in 1..3 |-> [j \in 1..3 |-> c * a[i][j]]]

(* ------------------------- get_perspective: K -------------------------- *)
(* f = 0.5 * width / tan(0.5 * fov): finite (kept as 2f), infinite when    *)
(* the tangent is 0 and width > 0, NaN when both are 0.                    *)
Focal(fv, w) ==
  IF TanHalf(fv) = 0
  THEN [kind |-> IF w = 0 THEN "nan" ELSE "inf", f2 |-> 0]
  ELSE [kind |-> "fin", f2 |-> w * TanHalf(fv)]

(* K = [[f,0,cx],[0,f,cy],[0,0,1]], stored as 2K so that cx = (w-1)/2 and  *)
(* cy = (h-1)/2 stay integer.                                              *)
Intrinsic(fv, h, w) ==
  LET f == Focal(fv, w) IN
  [kind |-> f.kind,
   m2 |-> << <<f.f2, 0, w - 1>>, <<0, f.f2, h - 1>>, <<0, 0, 2>> >>]

(* k.inv(): Err on a singular K; otherwise K^-1 = num / den with den > 0.  *)
(* With f infinite the LU factors give 1/f = 0 and cx/f = 0.  With f NaN   *)
(* the factorisation meets no zero pivot and returns NaN entries, which no *)
(* pixel reads because width = 0.                                          *)
Inv(km) ==
  CASE km.kind = "inf" ->
         [ok |-> TRUE, num |-> << <<0, 0, 0>>, <<0, 0, 0>>, <<0, 0, 1>> >>, den |-> 1]
    [] km.kind = "nan" -> [ok |-> TRUE, num |-> Z3, den |-> 1]
    [] km.kind = "fin" ->
         LET d == Det(km.m2) IN
         IF d = 0 THEN [ok |-> FALSE, num |-> Z3, den |-> 1]
         ELSE [ok |-> TRUE,
               num |-> Scale(Adjugate(km.m2), 2 * Sgn(d)),
               den |-> Abs(d)]

Pixels(h, w) == (0..(h - 1)) \X (0..(w - 1))

(* reshaped_xyz[i, j] = k_inv . (j, i, 1) *)
RayField(ki, h, w) ==
  [p \in Pixels(h, w) |-> MatVec(ki.num, <<p[2], p[1], 1>>)]

(* ------------------------ rotation composition ------------------------- *)
(* cv::Rodrigues on the vector axis * deg: angle = |deg|, unit axis =      *)
(* axis * sgn(deg); R = c I + (1 - c) u u^T + s [u]x; identity at angle 0. *)
Rodrigues_sign_slip(axis, deg) ==
  IF deg = 0 THEN I3
  ELSE LET u == [i \in 1..3 |-> axis[i] * Sgn(deg)]
           c == Cos(Abs(deg))
           s == Sin(Abs(deg))
           ux == << <<0, -u[3], u[2]>>, <<u[3], 0, -u[1]>>, <<-u[2], u[1], 0>> >>
       IN [i \in 1..3 |-> [j \in 1..3 |->
             c * I3[i][j] + (1 + c) * u[i] * u[j] + s * ux[i][j]]]

Rodrigues(axis, deg) ==
  IF deg = 0 THEN I3
  ELSE LET u == [i \in 1..3 |-> axis[i] * Sgn(deg)]
           c == Cos(Abs(deg))
           s == Sin(Abs(deg))
           ux == << <<0, -u[3], u[2]>>, <<u[3], 0, -u[1]>>, <<-u[2], u[1], 0>> >>
       IN [i \in 1..3 |-> [j \in 1..3 |->
             c * I3[i][j] + (1 - c) * u[i] * u[j] + s * ux[i][j]]]

y_axis == <<0, 1, 0>>
x_axis == <<1, 0, 0>>

R1(th) == Rodrigues(y_axis, th)

R2_fixed_axis(th, ph) == Rodrigues(x_axis, ph)

R2(th, ph) == Rodrigues(MatVec(R1(th), x_axis), ph)

Rotation(th, ph) == MatMul(R2(th, ph), R1(th))

RotateField(rm, field) == [p \in DOMAIN field |-> MatVec(rm, field[p])]

(* ---------------------------- xyz_to_lonlat ---------------------------- *)
(* x.atan2(z) in units of pi/8.  zs is the sign carried by an x component  *)
(* that is zero in exact arithmetic (a signed zero or a rounding residue   *)
(* of the rotation): behind the camera it selects +pi or -pi.              *)
Atan2(x, z, zs) ==
  CASE x = 0 /\ z >= 0 -> 0
    [] x = 0 /\ z < 0 -> zs * PI
    [] x # 0 /\ z = 0 -> Sgn(x) * 4
    [] x # 0 /\ z > 0 ->
         Sgn(x) * (IF Abs(x) < z THEN 1 ELSE IF Abs(x) = z THEN 2 ELSE 3)
    [] x # 0 /\ z < 0 ->
         Sgn(x) * (IF Abs(x) > -z THEN 5 ELSE IF Abs(x) = -z THEN 6 ELSE 7)

(* asin(y / norm) in units of pi/8, norm = sqrt(x^2 + y^2 + z^2) *)
AsinNorm(v) ==
  LET hh == v[1] * v[1] + v[3] * v[3]
      yy == v[2] * v[2]
  IN CASE v[2] = 0 -> 0
       [] v[2] # 0 /\ hh = 0 -> Sgn(v[2]) * 4
       [] v[2] # 0 /\ hh # 0 ->
            Sgn(v[2]) * (IF yy < hh THEN 1 ELSE IF yy = hh THEN 2 ELSE 3)

xyz_to_lonlat(xyz, zs) ==
  [p \in DOMAIN xyz |-> <<Atan2(xyz[p][1], xyz[p][3], zs), AsinNorm(xyz[p])>>]

(* ---------------------------- lonlat_to_xy ----------------------------- *)
(* x = (lon / (2 pi) + 0.5) * (w - 1), y = (lat / pi + 0.5) * (h - 1),     *)
(* both multiplied by 2*PI; shape is destructured as (h, w).               *)
lonlat_to_xy_swapped(ll, shape) ==
  LET w == shape[1]
      h == shape[2]
  IN [p \in DOMAIN ll |->
        <<(ll[p][1] + PI) * (w - 1), (2 * ll[p][2] + PI) * (h - 1)>>]

lonlat_to_xy_full_extent(ll, shape) ==
  LET h == shape[1]
      w == shape[2]
  IN [p \in DOMAIN ll |-> <<(ll[p][1] + PI) * w, (2 * ll[p][2] + PI) * h>>]

lonlat_to_xy_no_offset(ll, shape) ==
  LET h == shape[1]
      w == shape[2]
  IN [p \in DOMAIN ll |-> <<ll[p][1] * (w - 1), 2 * ll[p][2] * (h - 1)>>]

lonlat_to_xy(ll, shape) ==
  LET h == shape[1]
      w == shape[2]
  IN [p \in DOMAIN ll |->
        <<(ll[p][1] + PI) * (w - 1), (2 * ll[p][2] + PI) * (h - 1)>>]

(* ------------------------------- remap --------------------------------- *)
border_mode_replicate == "BORDER_REPLICATE"

border_mode == "BORDER_WRAP"

(* cv::borderInterpolate: the source index read for raw index q of an axis *)
(* of length len; -1 is the constant border value.                         *)
BorderInterpolate(q, len, mode) ==
  IF q >= 0 /\ q < len THEN q
  ELSE CASE mode = "BORDER_WRAP" -> q % len
         [] mode = "BORDER_REPLICATE" -> IF q < 0 THEN 0 ELSE len - 1
         [] mode = "BORDER_CONSTANT" -> -1

(* INTER_CUBIC along one axis: the raw indices floor(c)-1 .. floor(c)+2    *)
(* that carry a non-zero weight (only floor(c) when c is an integer), each *)
(* with the source index the border mode reads for it.                     *)
AxisTaps(c, len, mode) ==
  LET fl == c \div (2 * PI)
      offs == IF c % (2 * PI) = 0 THEN {0} ELSE {-1, 0, 1, 2}
  IN {[raw |-> fl + o, at |-> BorderInterpolate(fl + o, len, mode)] : o \in offs}

remap(s, coords, mode) ==
  [p \in DOMAIN coords |->
     [cols |-> AxisTaps(coords[p][1], s.cols, mode),
      rows |-> AxisTaps(coords[p][2], s.rows, mode)]]

(* ------------------------------- state --------------------------------- *)
NoField == << >>
NoSrc == [rows |-> 0, cols |-> 0]
NoK == [kind |-> "none", m2 |-> Z3]
NoInv == [ok |-> FALSE, num |-> Z3, den |-> 1]

Init ==
  /\ pc = "new"
  /\ src = NoSrc
  /\ self_height = 0
  /\ self_width = 0
  /\ fov = 0 /\ theta = 0 /\ phi = 0 /\ height = 0 /\ width = 0
  /\ k = NoK
  /\ k_inv = NoInv
  /\ reshaped_xyz = NoField
  /\ r = Z3
  /\ rotated_xyz = NoField
  /\ lonlat = NoField
  /\ xy = NoField
  /\ persp = NoField
  /\ reached = {}
  /\ written = FALSE
  /\ exit_code = -1
  /\ diag = ""

Panic(msg) ==
  /\ pc' = "panicked"
  /\ exit_code' = 101
  /\ diag' = msg

(* The array nshare builds from the decoded image has shape                *)
(* (channels, rows, columns).                                              *)
Shape(rows, cols) == <<3, rows, cols>>

(* Equirectangular::new, decode or read failure *)
NewFails ==
  /\ pc = "new"
  /\ \E msg \in {"Could not read image!", "Could not decode image!"} : Panic(msg)
  /\ UNCHANGED <<src, self_height, self_width, fov, theta, phi, height, width,
                 k, k_inv, reshaped_xyz, r, rotated_xyz, lonlat, xy, persp,
                 reached, written>>

(* Equirectangular::new *)
New ==
  /\ pc = "new"
  /\ \E rows \in SrcDims, cols \in SrcDims :
       /\ src' = [rows |-> rows, cols |-> cols]
       /\ self_height' = Shape(rows, cols)[3]
       /\ self_width' = Shape(rows, cols)[2]
  /\ pc' = "get_perspective"
  /\ UNCHANGED <<fov, theta, phi, height, width,
                 k, k_inv, reshaped_xyz, r, rotated_xyz, lonlat, xy, persp,
                 reached, written, exit_code, diag>>

(* get_perspective, entry: f, cx, cy and K *)
Intrinsics ==
  /\ pc = "get_perspective"
  /\ \E fv \in Fovs, th \in Angles, ph \in Angles, h \in OutDims, w \in OutDims :
       /\ fov' = fv /\ theta' = th /\ phi' = ph /\ height' = h /\ width' = w
       /\ k' = Intrinsic(fv, h, w)
  /\ reached' = reached \cup {"intrinsics"}
  /\ pc' = "k_inv"
  /\ UNCHANGED <<src, self_height, self_width,
                 k_inv, reshaped_xyz, r, rotated_xyz, lonlat, xy, persp,
                 written, exit_code, diag>>

(* k.inv().expect("Could not invert matrix!") *)
InvertK ==
  /\ pc = "k_inv"
  /\ reached' = reached \cup {"k_inv"}
  /\ k_inv' = Inv(k)
  /\ IF Inv(k).ok
     THEN pc' = "rays" /\ UNCHANGED <<exit_code, diag>>
     ELSE Panic("Could not invert matrix!")
  /\ UNCHANGED <<src, self_height, self_width, fov, theta, phi, height, width,
                 k, reshaped_xyz, r, rotated_xyz, lonlat, xy, persp, written>>

(* the pixel grid and reshaped_xyz *)
Rays ==
  /\ pc = "rays"
  /\ reached' = reached \cup {"rays"}
  /\ reshaped_xyz' = RayField(k_inv, height, width)
  /\ pc' = "rotation"
  /\ UNCHANGED <<src, self_height, self_width, fov, theta, phi, height, width,
                 k, k_inv, r, rotated_xyz, lonlat, xy, persp,
                 written, exit_code, diag>>

(* r1, r2 and r = r2 * r1 *)
ComposeRotation ==
  /\ pc = "rotation"
  /\ reached' = reached \cup {"rotation"}
  /\ r' = Rotation(theta, phi)
  /\ pc' = "rotate"
  /\ UNCHANGED <<src, self_height, self_width, fov, theta, phi, height, width,
                 k, k_inv, reshaped_xyz, rotated_xyz, lonlat, xy, persp,
                 written, exit_code, diag>>

(* rotated_xyz[i, j] = r . reshaped_xyz[i, j] *)
Rotate ==
  /\ pc = "rotate"
  /\ reached' = reached \cup {"rotate"}
  /\ rotated_xyz' = RotateField(r, reshaped_xyz)
  /\ pc' = "project"
  /\ UNCHANGED <<src, self_height, self_width, fov, theta, phi, height, width,
                 k, k_inv, reshaped_xyz, r, lonlat, xy, persp,
                 written, exit_code, diag>>

(* lonlat = xyz_to_lonlat(rotated_xyz); xy = lonlat_to_xy(lonlat, ...) *)
Project ==
  /\ pc = "project"
  /\ reached' = reached \cup {"project"}
  /\ \E zs \in {-1, 1} :
       /\ lonlat' = xyz_to_lonlat(rotated_xyz, zs)
       /\ xy' = lonlat_to_xy(xyz_to_lonlat(rotated_xyz, zs), <<self_width, self_height>>)
  /\ pc' = "remap"
  /\ UNCHANGED <<src, self_height, self_width, fov, theta, phi, height, width,
                 k, k_inv, reshaped_xyz, r, rotated_xyz, persp,
                 written, exit_code, diag>>

(* the two maps and imgproc::remap(...).unwrap(); an empty map is refused *)
Remap ==
  /\ pc = "remap"
  /\ reached' = reached \cup {"remap"}
  /\ IF DOMAIN xy = {}
     THEN Panic("called Result::unwrap() on an Err value") /\ UNCHANGED persp
     ELSE /\ persp' = remap(src, xy, border_mode)
          /\ pc' = "imwrite"
          /\ UNCHANGED <<exit_code, diag>>
  /\ UNCHANGED <<src, self_height, self_width, fov, theta, phi, height, width,
                 k, k_inv, reshaped_xyz, r, rotated_xyz, lonlat, xy, written>>

(* imwrite(...).expect("Could not write image!"): Err panics; Ok(true) has *)
(* written the file; Ok(false) has not, and the value is dropped.          *)
Imwrite ==
  /\ pc = "imwrite"
  /\ \E res \in {"Err", "Ok(true)", "Ok(false)"} :
       IF res = "Err"
       THEN Panic("Could not write image!") /\ UNCHANGED written
       ELSE /\ written' = (res = "Ok(true)")
            /\ pc' = "println"
            /\ UNCHANGED <<exit_code, diag>>
  /\ UNCHANGED <<src, self_height, self_width, fov, theta, phi, height, width,
                 k, k_inv, reshaped_xyz, r, rotated_xyz, lonlat, xy, persp, reached>>

(* println!(elapsed) and return from main *)
Exit ==
  /\ pc = "println"
  /\ pc' = "done"
  /\ exit_code' = 0
  /\ UNCHANGED <<src, self_height, self_width, fov, theta, phi, height, width,
                 k, k_inv, reshaped_xyz, r, rotated_xyz, lonlat, xy, persp,
                 reached, written, diag>>

Next ==
  \/ NewFails
  \/ New
  \/ Intrinsics
  \/ InvertK
  \/ Rays
  \/ ComposeRotation
  \/ Rotate
  \/ Project
  \/ Remap
  \/ Imwrite
  \/ Exit

Spec == Init /\ [][Next]_vars

(* =============================== claims =============================== *)

(* C1: a call with a degenerate field of view (fov <= 0 or fov >= 180) is  *)
(* rejected before the inversion of K is attempted: the k.inv() step is    *)
(* never reached on such a call.                                           *)
C1_DegenerateFovNeverInverted ==
  ("intrinsics" \in reached /\ (fov <= 0 \/ fov >= 180)) => "k_inv" \notin reached

(* C2: a call whose output height or width is 0 is reported as             *)
(* InvalidParameter before any pipeline stage runs, and no output image is *)
(* produced.                                                               *)
C2_ZeroDimsRejectedFirst ==
  (height = 0 \/ width = 0) => (reached = {} /\ persp = NoField)

(* C3: any decode, compute or write failure ends the process with a        *)
(* failure outcome, so a run that ends successfully has written the image. *)
C3_SuccessMeansWritten ==
  /\ pc = "panicked" => exit_code # 0
  /\ pc = "done" => (exit_code = 0 /\ written)

(* C4: every sample coordinate is sx = (lon/(2 pi) + 0.5) * (columns - 1)  *)
(* and sy = (lat/pi + 0.5) * (rows - 1) of the decoded source, for square  *)
(* and non-square sources alike.                                           *)
C4_ScaledByColumnsAndRows ==
  "project" \in reached =>
    \A p \in DOMAIN xy :
      /\ xy[p][1] = (lonlat[p][1] + PI) * (src.cols - 1)
      /\ xy[p][2] = (2 * lonlat[p][2] + PI) * (src.rows - 1)

C4_Witness ==
  /\ "project" \in reached
  /\ src.rows >= 2 /\ src.cols >= 2 /\ src.rows # src.cols
  /\ \E p \in DOMAIN xy : xy[p][1] # 0 /\ xy[p][2] # 0 /\ xy[p][1] # xy[p][2]

(* C5: the resampler wraps an out-of-range source column horizontally, but *)
(* never wraps an out-of-range source row to the opposite edge: such a row *)
(* is the border constant or the clamped edge row.                         *)
C5_RowsNeverWrap ==
  "remap" \in reached =>
    \A p \in DOMAIN persp :
      /\ \A t \in persp[p].cols :
           (t.raw < 0 \/ t.raw >= src.cols) => t.at = t.raw % src.cols
      /\ \A t \in persp[p].rows :
           (t.raw < 0 \/ t.raw >= src.rows) =>
              t.at \in {-1, IF t.raw < 0 THEN 0 ELSE src.rows - 1}

(* C6 as stated: for the straight-ahead ray with phi = 0, sx at theta =    *)
(* 180 differs from sx at theta = 0 by srcW/2 modulo srcW.                 *)
C6_ShiftHalfWidthModWidth ==
  ("project" \in reached /\ theta = 180 /\ phi = 0) =>
    \A p \in DOMAIN xy :
      (reshaped_xyz[p][1] = 0 /\ reshaped_xyz[p][2] = 0 /\ reshaped_xyz[p][3] > 0) =>
        LET ahead == [q \in {p} |-> reshaped_xyz[p]]
            sx0 == lonlat_to_xy(xyz_to_lonlat(RotateField(Rotation(0, 0), ahead), 1),
                                <<self_width, self_height>>)[p][1]
        IN (xy[p][1] - sx0 - PI * src.cols) % (2 * PI * src.cols) = 0

(* C6 amended: for the straight-ahead ray with phi = 0, sx at theta = 0 is *)
(* (srcW - 1)/2 and sx at theta = 180 differs from it by exactly           *)
(* (srcW - 1)/2 in magnitude.                                              *)
C6_ShiftHalfOfWidthMinusOne ==
  ("project" \in reached /\ theta = 180 /\ phi = 0) =>
    \A p \in DOMAIN xy :
      (reshaped_xyz[p][1] = 0 /\ reshaped_xyz[p][2] = 0 /\ reshaped_xyz[p][3] > 0) =>
        LET ahead == [q \in {p} |-> reshaped_xyz[p]]
            sx0 == lonlat_to_xy(xyz_to_lonlat(RotateField(Rotation(0, 0), ahead), 1),
                                <<self_width, self_height>>)[p][1]
        IN /\ sx0 = PI * (src.cols - 1)
           /\ Abs(xy[p][1] - sx0) = PI * (src.cols - 1)

C6_Witness ==
  /\ "project" \in reached /\ theta = 180 /\ phi = 0 /\ fov = 90
  /\ src.cols = 2
  /\ \E p \in DOMAIN xy :
       /\ reshaped_xyz[p][1] = 0 /\ reshaped_xyz[p][2] = 0 /\ reshaped_xyz[p][3] > 0
       /\ xy[p][1] = 2 * PI * (src.cols - 1)

(* C7 as stated: the values of sx for lon = -pi and lon = +pi denote the   *)
(* same source column under the horizontal wrap of the remap call.         *)
C7_SeamSameColumn ==
  "remap" \in reached =>
    \A p \in DOMAIN persp :
      lonlat[p][1] \in {-PI, PI} =>
        LET other == lonlat_to_xy([q \in {p} |-> <<-lonlat[p][1], lonlat[p][2]>>],
                                  <<self_width, self_height>>)[p][1]
        IN BorderInterpolate(xy[p][1] \div (2 * PI), src.cols, border_mode)
             = BorderInterpolate(other \div (2 * PI), src.cols, border_mode)

(* C7 amended: the values of sx for lon = -pi and lon = +pi are 0 and      *)
(* srcW - 1; under the horizontal wrap of the remap call, whose period is  *)
(* srcW, they denote the two columns adjacent across the seam (the column  *)
(* after srcW - 1 is column 0), and the same column only when srcW = 1.    *)
C7_SeamAdjacentColumns ==
  "remap" \in reached =>
    \A p \in DOMAIN persp :
      lonlat[p][1] \in {-PI, PI} =>
        LET at(l) == lonlat_to_xy([q \in {p} |-> <<l, lonlat[p][2]>>],
                                  <<self_width, self_height>>)[p][1]
            col(c) == BorderInterpolate(c \div (2 * PI), src.cols, border_mode)
        IN /\ xy[p][1] = at(lonlat[p][1])
           /\ at(-PI) = 0
           /\ at(PI) = 2 * PI * (src.cols - 1)
           /\ col(at(-PI)) = 0
           /\ col(at(PI)) = src.cols - 1
           /\ BorderInterpolate(col(at(PI)) + 1, src.cols, border_mode) = col(at(-PI))
           /\ (col(at(PI)) = col(at(-PI))) <=> (src.cols = 1)

C7_Witness ==
  /\ "remap" \in reached
  /\ src.cols >= 2
  /\ \E p \in DOMAIN persp : lonlat[p][1] = -PI /\ xy[p][1] = 0

(* C8: R = R2 * R1 with the pitch about the yawed axis R1 * (1,0,0): R     *)
(* leaves that axis fixed; theta = 90, phi = 0 sends the forward ray to a  *)
(* vector with no vertical component; theta = 0, phi = 90 sends it to a    *)
(* vector with no horizontal component; and for every right-angle yaw a    *)
(* pitch of 90 sends it onto the vertical axis.                            *)
C8_YawThenPitchAboutYawedAxis ==
  "rotation" \in reached =>
    LET fwd == MatVec(r, <<0, 0, 1>>) IN
    /\ MatVec(r, x_axis) = MatVec(Rodrigues(y_axis, theta), x_axis)
    /\ (theta = 90 /\ phi = 0) => (fwd[2] = 0 /\ fwd # <<0, 0, 1>>)
    /\ (theta = 0 /\ phi = 90) => (fwd[1] = 0 /\ fwd[2] # 0)
    /\ phi = 90 => (fwd[1] = 0 /\ fwd[3] = 0 /\ Abs(fwd[2]) = 1)

C8_Witness ==
  "rotation" \in reached /\ theta = 90 /\ phi = 90 /\ r # I3

(* C9: for all theta and phi the composed matrix R = R2 * R1 is a proper   *)
(* rotation: transpose(R) * R = I and det(R) = 1.                          *)
C9_ProperRotation ==
  "rotation" \in reached =>
    LET rt == [i \in 1..3 |-> [j \in 1..3 |-> r[j][i]]]
    IN MatMul(rt, r) = I3 /\ Det(r) = 1

C9_Witness ==
  "rotation" \in reached /\ theta = -270 /\ phi = 180 /\ r # I3

(* C10 as stated: 0 <= sx <= srcW - 1 and 0 <= sy <= srcH - 1 for every    *)
(* pixel, the bounds being reached only at lon = -pi/+pi and at            *)
(* lat = -pi/2/+pi/2.                                                      *)
C10_InExtentsBoundsOnlyAtSeam ==
  "project" \in reached =>
    \A p \in DOMAIN xy :
      /\ 0 <= xy[p][1] /\ xy[p][1] <= 2 * PI * (src.cols - 1)
      /\ 0 <= xy[p][2] /\ xy[p][2] <= 2 * PI * (src.rows - 1)
      /\ xy[p][1] = 0 => lonlat[p][1] = -PI
      /\ xy[p][1] = 2 * PI * (src.cols - 1) => lonlat[p][1] = PI
      /\ xy[p][2] = 0 => 2 * lonlat[p][2] = -PI
      /\ xy[p][2] = 2 * PI * (src.rows - 1) => 2 * lonlat[p][2] = PI

(* C10 amended: 0 <= sx <= srcW - 1 and 0 <= sy <= srcH - 1 for every      *)
(* pixel; when srcW >= 2 the horizontal bounds are reached only at         *)
(* lon = -pi/+pi and when srcH >= 2 the vertical bounds only at            *)
(* lat = -pi/2/+pi/2 (a one-pixel extent makes the coordinate 0 for every  *)
(* angle); the sample point itself is never outside the source.            *)
C10_InExtents ==
  "project" \in reached =>
    \A p \in DOMAIN xy :
      /\ 0 <= xy[p][1] /\ xy[p][1] <= 2 * PI * (src.cols - 1)
      /\ 0 <= xy[p][2] /\ xy[p][2] <= 2 * PI * (src.rows - 1)
      /\ src.cols >= 2 =>
           /\ xy[p][1] = 0 => lonlat[p][1] = -PI
           /\ xy[p][1] = 2 * PI * (src.cols - 1) => lonlat[p][1] = PI
      /\ src.rows >= 2 =>
           /\ xy[p][2] = 0 => 2 * lonlat[p][2] = -PI
           /\ xy[p][2] = 2 * PI * (src.rows - 1) => 2 * lonlat[p][2] = PI
      /\ BorderInterpolate(xy[p][1] \div (2 * PI), src.cols, border_mode)
           = xy[p][1] \div (2 * PI)
      /\ BorderInterpolate(xy[p][2] \div (2 * PI), src.rows, border_mode)
           = xy[p][2] \div (2 * PI)

C10_Witness ==
  /\ "project" \in reached
  /\ src.cols >= 2 /\ src.rows >= 2
  /\ \E p \in DOMAIN xy :
       /\ lonlat[p][1] = PI /\ xy[p][1] = 2 * PI * (src.cols - 1)
       /\ 0 < xy[p][2] /\ xy[p][2] < 2 * PI * (src.rows - 1)
  /\ \E p \in DOMAIN xy :
       0 < xy[p][1] /\ xy[p][1] < 2 * PI * (src.cols - 1)

====
